---- MODULE Spec2Model ----
(***************************************************************************)
(* A model of tinyraytracer (src/src/main.rs, src/src/vector.rs).          *)
(*                                                                         *)
(* Numbers.  An f32 is modelled as a binary floating-point number scaled   *)
(* down: a value is an integer count of the quantum 2^-FracBits, it keeps  *)
(* at most MantBits significant bits, and every arithmetic operation       *)
(* rounds its exact result to the nearest such value, ties to even, as     *)
(* IEEE-754 does.  Infinities and NaN are not modelled: the inputs are     *)
(* bounded so that no operation overflows or divides by zero.              *)
(***************************************************************************)
EXTENDS Integers, Sequences, FiniteSets, TLC

\* ------------------------------------------------------------- bounds

\* fractional bits of the scaled-down f32 (1.0 is 2^FracBits quanta)
FracBits == 4
\* significant bits of the scaled-down f32 (24 in a real f32)
MantBits == 11
\* image width and height of the scaled-down frame (1024 x 768 in the code)
WIDTH == 3
HEIGHT == 2
\* longest scene (list of spheres) and list of lights that Init draws
MaxSpheres == 2
MaxLights == 3

\* ------------------------------------------------------------- f32

RECURSIVE Pow2(_)
Pow2(n) == IF n <= 0 THEN 1 ELSE 2 * Pow2(n - 1)

Scale == Pow2(FracBits)

Abs(x) == IF x < 0 THEN -x ELSE x
Sgn(x) == IF x < 0 THEN -1 ELSE 1

\* the spacing of representable values at magnitude q (q in quanta)
RECURSIVE Ulp(_)
Ulp(q) == IF q < Pow2(MantBits) THEN 1 ELSE 2 * Ulp(q \div 2)

\* m + rem/d (0 <= rem < d) rounded to the nearest integer, ties to even
Nearest(m, rem, d) ==
    IF 2 * rem > d \/ (2 * rem = d /\ m % 2 = 1) THEN m + 1 ELSE m

\* a/den (a >= 0, den > 0) rounded to the nearest multiple of u
RoundMag(a, den, u) == u * Nearest(a \div (den * u), a % (den * u), den * u)

\* num/den (den > 0, in quanta) rounded to the nearest representable value,
\* ties to even
RoundQ(num, den) == Sgn(num) * RoundMag(Abs(num), den, Ulp(Abs(num) \div den))

\* a literal: the f32 nearest to num/den
Lit(num, den) == RoundQ(num * Scale, den)

Zero == 0
One == Scale

FAdd(a, b) == RoundQ(a + b, 1)
FSub(a, b) == RoundQ(a - b, 1)
FMul(a, b) == RoundQ(a * b, Scale)
FNeg(a) == -a
\* a / b for b # 0
FDiv(a, b) == RoundQ(Sgn(b) * a * Scale, Abs(b))
\* f32::recip, 1.0 / a, for a # 0
FRecip(a) == RoundQ(Sgn(a) * Scale * Scale, Abs(a))

\* the integer square root: the largest r with r * r <= x
RECURSIVE ISqrt(_)
ISqrt(x) ==
    IF x < 2 THEN x
    ELSE IF (2 * ISqrt(x \div 4) + 1) * (2 * ISqrt(x \div 4) + 1) <= x
         THEN 2 * ISqrt(x \div 4) + 1
         ELSE 2 * ISqrt(x \div 4)
\* the integer nearest to the square root of x, r being ISqrt(x)
SqrtNearest(x, r) == IF x - r * r > r THEN r + 1 ELSE r
\* f32::sqrt for a >= 0: the square root rounded to nearest
FSqrt(a) == RoundQ(SqrtNearest(a * Scale, ISqrt(a * Scale)), 1)

\* f32::max and f32::min of two numbers
FMax(a, b) == IF a > b THEN a ELSE b
FMin(a, b) == IF a < b THEN a ELSE b

RECURSIVE IntPow(_, _)
IntPow(x, n) == IF n <= 0 THEN 1 ELSE x * IntPow(x, n - 1)
\* f32::powf(x, e) for x >= 0 and a whole positive exponent e
FPowf(x, e) == RoundQ(IntPow(x, e \div Scale) * Scale, IntPow(Scale, e \div Scale))

\* ------------------------------------------------------------- Vec3f

Vec3f(x, y, z) == <<x, y, z>>

VNorm(v) == FAdd(FAdd(FMul(v[1], v[1]), FMul(v[2], v[2])), FMul(v[3], v[3]))
VLen(v) == FSqrt(VNorm(v))
VDot(a, b) == FAdd(FAdd(FMul(a[1], b[1]), FMul(a[2], b[2])), FMul(a[3], b[3]))
VAdd(a, b) == <<FAdd(a[1], b[1]), FAdd(a[2], b[2]), FAdd(a[3], b[3])>>
VSub(a, b) == <<FSub(a[1], b[1]), FSub(a[2], b[2]), FSub(a[3], b[3])>>
\* Mul for Vec3f: the component-wise product
VMul(a, b) == <<FMul(a[1], b[1]), FMul(a[2], b[2]), FMul(a[3], b[3])>>
\* Mul<f32> for Vec3f
VScale(a, s) == <<FMul(a[1], s), FMul(a[2], s), FMul(a[3], s)>>
\* Neg for Vec3f (used by cast_ray; its impl is not in vector.rs)
VNeg(a) == <<FNeg(a[1]), FNeg(a[2]), FNeg(a[3])>>
\* each component times inv_len = self.len().recip()
VNormalize(v) == VScale(v, FRecip(VLen(v)))

\* ------------------------------------------------------------- Option

None == <<>>
Some(v) == <<v>>
IsSome(o) == o # <<>>
Unwrap(o) == o[1]

\* ------------------------------------------------------------- Sphere

Material(albedo, diffuse_color, specular_exponent) ==
    [albedo |-> albedo, diffuse_color |-> diffuse_color,
     specular_exponent |-> specular_exponent]
Light(position, intensity) == [position |-> position, intensity |-> intensity]
Sphere(center, radius, material) ==
    [center |-> center, radius |-> radius, material |-> material]


\* PickRoot without the inside-the-sphere branch: the near root is returned
\* even when it is behind the origin
PickRootNearOnly(t0, t1) ==
    IF t0 < 0 /\ t1 < 0 THEN None
    ELSE Some(IF t0 < t1 THEN t0 ELSE t1)

\* Sphere::ray_intersect, one operator per local it computes:
\* the branches on the two roots
PickRoot(t0, t1) ==
    IF t0 < 0 /\ t1 < 0 THEN None
    ELSE IF t0 < 0 THEN Some(t1)
    ELSE IF t1 < 0 THEN Some(t0)
    ELSE Some(IF t0 < t1 THEN t0 ELSE t1)
\* t0 = tca - thc, t1 = tca + thc
FromThc(tca, thc) == PickRoot(FSub(tca, thc), FAdd(tca, thc))
\* the early return on d2 > radius2, then thc
FromD2(tca, d2, radius2) ==
    IF d2 > radius2 THEN None ELSE FromThc(tca, FSqrt(FSub(radius2, d2)))
\* d2 = l.dot(&l) - tca * tca
FromTca(tca, ll, radius2) == FromD2(tca, FSub(ll, FMul(tca, tca)), radius2)
\* tca = l.dot(&dir)
FromL(l, dir, radius2) == FromTca(VDot(l, dir), VDot(l, l), radius2)
\* l = self.center - *orig, radius2 = self.radius * self.radius
RayIntersect(s, orig, dir) ==
    FromL(VSub(s.center, orig), dir, FMul(s.radius, s.radius))

\* ------------------------------------------------------------- reflect

Reflect(light_dir, n) ==
    VMul(light_dir, VMul(VScale(n, Lit(2, 1)), VMul(light_dir, n)))

\* ------------------------------------------------------------- scene_intersect

\* `distance as u32`: truncation toward zero, negatives to 0 (the bounded
\* distances never reach u32::MAX)
AsU32(d) == IF d <= 0 THEN 0 ELSE d \div Scale

\* the closure of filter_map: Some((distance, sphere)) or None, as a list
\* of at most one pair; a sphere is named by its index in the scene
Pair(r, k) == IF IsSome(r) THEN << <<Unwrap(r), k>> >> ELSE <<>>

\* .iter().filter_map(..): the (distance, sphere) pairs of the intersecting
\* spheres, in scene order
RECURSIVE FilterMap(_, _, _, _)
FilterMap(spheres, orig, dir, k) ==
    IF k > Len(spheres) THEN <<>>
    ELSE Pair(RayIntersect(spheres[k], orig, dir), k)
         \o FilterMap(spheres, orig, dir, k + 1)


\* KeepOrTake as max_by's reduce compares: the later element also replaces
\* the kept one when the keys are Equal
KeepOrTakeLast(best, y) == IF AsU32(best[1]) >= AsU32(y[1]) THEN y ELSE best

\* the comparison of Iterator::min_by's reduce: the later element replaces
\* the kept one only when the kept one's key is Greater
KeepOrTake(best, y) == IF AsU32(best[1]) > AsU32(y[1]) THEN y ELSE best

RECURSIVE Reduce(_, _, _)
Reduce(items, k, best) ==
    IF k > Len(items) THEN best
    ELSE Reduce(items, k + 1, KeepOrTake(best, items[k]))

\* .min_by_key(|(distance, _)| *distance as u32)
MinByKey(items) ==
    IF items = <<>> THEN None ELSE Some(Reduce(items, 2, items[1]))

\* the tuple returned for a hit: (sphere, n, hit)
HitRecord(sphere, center, hit) ==
    [sphere |-> sphere, n |-> VNormalize(VSub(hit, center)), hit |-> hit]

\* `match closest_intersecting`
MatchClosest(closest_intersecting, orig, dir, spheres) ==
    IF IsSome(closest_intersecting)
    THEN Some(HitRecord(Unwrap(closest_intersecting)[2],
                        spheres[Unwrap(closest_intersecting)[2]].center,
                        VAdd(orig, VScale(dir, Unwrap(closest_intersecting)[1]))))
    ELSE None

SceneIntersect(orig, dir, spheres) ==
    MatchClosest(MinByKey(FilterMap(spheres, orig, dir, 1)), orig, dir, spheres)

\* ------------------------------------------------------------- cast_ray

Background == Vec3f(Lit(2, 10), Lit(7, 10), Lit(8, 10))


\* AddLight with `=` for `+=`: each light overwrites the sums
AddLightAssign(acc, intensity, light_dir, n, dir, exponent) ==
    <<FMul(intensity, FMax(Zero, VDot(light_dir, n))),
      FMul(FPowf(FMax(Zero, VDot(VNeg(Reflect(VNeg(light_dir), n)), dir)),
                 exponent),
           intensity)>>

\* the two `+=` of the loop body, light_dir being computed
AddLight(acc, intensity, light_dir, n, dir, exponent) ==
    <<FAdd(acc[1], FMul(intensity, FMax(Zero, VDot(light_dir, n)))),
      FAdd(acc[2],
           FMul(FPowf(FMax(Zero, VDot(VNeg(Reflect(VNeg(light_dir), n)), dir)),
                      exponent),
                intensity))>>

\* the loop body for one light
LightStep(acc, light, n, hit, dir, exponent) ==
    AddLight(acc, light.intensity, VNormalize(VSub(light.position, hit)),
             n, dir, exponent)

\* `for light in lights { .. }`: the sums after the lights from k on are
\* added to acc = <<diffuse_light_intensity, specular_light_intensity>>
RECURSIVE LightLoop(_, _, _, _, _, _, _)
LightLoop(lights, k, acc, n, hit, dir, exponent) ==
    IF k > Len(lights) THEN acc
    ELSE LightLoop(lights, k + 1,
                   LightStep(acc, lights[k], n, hit, dir, exponent),
                   n, hit, dir, exponent)

\* the sums cast_ray accumulates for the hit h
LightSums(h, dir, material, lights) ==
    LightLoop(lights, 1, <<Zero, Zero>>, h.n, h.hit, dir,
              material.specular_exponent)

\* the colour returned for a hit
Shade(material, sums) ==
    VAdd(VScale(VScale(material.diffuse_color, sums[1]), material.albedo[1]),
         VScale(Vec3f(One, One, One), FMul(sums[2], material.albedo[2])))

\* the Some arm of cast_ray's match
ShadeHit(h, dir, material, lights) ==
    Shade(material, LightSums(h, dir, material, lights))


\* MatchHit whose None arm shades with the (empty) sums when there is no
\* light, instead of returning the background
MatchHitUnlit(si, dir, spheres, lights) ==
    IF IsSome(si)
    THEN ShadeHit(Unwrap(si), dir, spheres[Unwrap(si).sphere].material, lights)
    ELSE IF lights = <<>> THEN Vec3f(Zero, Zero, Zero) ELSE Background

\* `match scene_intersect(orig, dir, spheres)`
MatchHit(si, dir, spheres, lights) ==
    IF IsSome(si)
    THEN ShadeHit(Unwrap(si), dir, spheres[Unwrap(si).sphere].material, lights)
    ELSE Background

CastRay(orig, dir, spheres, lights) ==
    MatchHit(SceneIntersect(orig, dir, spheres), dir, spheres, lights)

\* ------------------------------------------------------------- render

\* (FOV / 2.0).tan() with FOV = PI / 2
TanHalfFov == One

\* `n as f32` of a small usize
AsF32(n) == n * Scale

\* the primary ray of pixel (pi, pj)
PixelDir(pi, pj) ==
    LET px == FDiv(FMul(FMul(FSub(FDiv(FMul(Lit(2, 1), FAdd(AsF32(pi), Lit(1, 2))),
                                       AsF32(WIDTH)),
                                  One),
                             TanHalfFov),
                        AsF32(WIDTH)),
                   AsF32(HEIGHT))
        py == FMul(FNeg(FSub(FDiv(FMul(Lit(2, 1), FAdd(AsF32(pj), Lit(1, 2))),
                                  AsF32(HEIGHT)),
                             One)),
                   TanHalfFov)
    IN  VNormalize(Vec3f(px, py, -One))


\* SlotOf with the row stride taken from the height
SlotOfByHeight(pi, pj) == pi + pj * HEIGHT

\* the framebuffer slot of pixel (pi, pj)
SlotOf(pi, pj) == pi + pj * WIDTH

\* `x as u8`: truncation toward zero, saturating at 0 and 255
AsU8(v) == IF v <= 0 THEN 0 ELSE IF v \div Scale > 255 THEN 255 ELSE v \div Scale


\* ChannelByte rounding to nearest instead of truncating
ChannelByteRounded(z) ==
    AsU8(FAdd(FMul(Lit(255, 1), FMax(Zero, FMin(One, z))), Lit(1, 2)))

\* the byte written for channel value z
ChannelByte(z) == AsU8(FMul(Lit(255, 1), FMax(Zero, FMin(One, z))))

\* the pieces of the header "P6\n{} {}\n255\n", one write each
P6 == 6
MAXVAL == 255
Header == <<P6, WIDTH, HEIGHT, MAXVAL>>

\* ------------------------------------------------------------- inputs

RECURSIVE SeqsUpTo(_, _)
SeqsUpTo(S, n) ==
    IF n <= 0 THEN {<<>>}
    ELSE LET shorter == SeqsUpTo(S, n - 1)
         IN  shorter \cup {Append(q, e) : q \in {t \in shorter : Len(t) = n - 1}, e \in S}

Ivory == Material(<<Lit(6, 10), Lit(3, 10)>>,
                  Vec3f(Lit(4, 10), Lit(4, 10), Lit(3, 10)), Lit(2, 1))
RedRubber == Material(<<Lit(9, 10), Lit(1, 10)>>,
                      Vec3f(Lit(3, 10), Lit(1, 10), Lit(1, 10)), Lit(1, 1))
\* a material whose colour leaves [0, 1] (channel values are not enforced)
Vivid == Material(<<One, Zero>>, Vec3f(-One, Lit(1, 2), Lit(2, 1)), Lit(1, 1))

Centers == {Vec3f(0, 0, -Lit(4, 1)), Vec3f(0, 0, -Lit(6, 1)),
            Vec3f(Lit(2, 1), 0, -Lit(4, 1))}
Radii == {One, Lit(1, 2)}
SphereSet == {Sphere(c, r, Ivory) : c \in Centers, r \in Radii}
Scenes == SeqsUpTo(SphereSet, MaxSpheres)

Origs == {Vec3f(0, 0, 0), Vec3f(0, 0, -Lit(4, 1))}
Dirs == {Vec3f(0, 0, -One), Vec3f(0, 0, One), Vec3f(Lit(6, 10), 0, -Lit(8, 10))}
Normals == {Vec3f(0, One, 0), Vec3f(0, 0, One),
            Vec3f(Lit(6, 10), 0, Lit(8, 10))}

\* the scenes cast_ray is applied to
ShadeScenes == {<<>>,
                <<Sphere(Vec3f(0, 0, -Lit(4, 1)), One, Vivid)>>,
                <<Sphere(Vec3f(Lit(2, 1), 0, -Lit(4, 1)), One, Ivory)>>,
                <<Sphere(Vec3f(Lit(2, 1), 0, -Lit(4, 1)), One, Ivory),
                  Sphere(Vec3f(0, 0, -Lit(4, 1)), One, Vivid)>>}
LightSet == {Light(Vec3f(0, 0, Lit(5, 1)), Lit(128, 1)),
             Light(Vec3f(0, 0, Lit(5, 1)), Lit(1, 16)),
             Light(Vec3f(Lit(4, 1), Lit(4, 1), Lit(1, 1)), Lit(3, 2))}
LightSeqs == SeqsUpTo(LightSet, MaxLights)

RenderScenes == {<<>>,
                 <<Sphere(Vec3f(0, 0, -Lit(4, 1)), Lit(2, 1), Vivid)>>,
                 <<Sphere(Vec3f(Lit(2, 1), 0, -Lit(4, 1)), One, Ivory),
                   Sphere(Vec3f(-Lit(2, 1), Lit(1, 1), -Lit(5, 1)), Lit(2, 1), RedRubber)>>}
RenderLights == {<<>>,
                 <<Light(Vec3f(0, 0, Lit(5, 1)), Lit(7, 4))>>,
                 <<Light(Vec3f(-Lit(4, 1), Lit(4, 1), Lit(4, 1)), Lit(3, 2)),
                   Light(Vec3f(Lit(6, 1), Lit(10, 1), Lit(1, 1)), Lit(128, 1))>>}

\* ------------------------------------------------------------- state

VARIABLES
    spheres,      \* the scene: the ordered list of spheres
    lights,       \* the ordered list of lights
    orig, dir,    \* the ray a function is applied to
    res,          \* the last function applied and what it returned
    pc,           \* where render is
    i, j,         \* the counters of render's frame loop
    framebuffer,  \* slot -> colour
    written,      \* the slots assigned so far, in order (history)
    exists,       \* whether out.ppm has been created
    out,          \* what out.ppm holds: header pieces, then bytes
    frame, ch,    \* the counters of render's encoder loop
    ret           \* what render returned: "none" while it runs

vars == <<spheres, lights, orig, dir, res, pc, i, j, framebuffer, written,
          exists, out, frame, ch, ret>>
callVars == <<orig, dir, res>>
renderVars == <<pc, i, j, framebuffer, written, exists, out, frame, ch, ret>>

Slots == 0 .. (WIDTH * HEIGHT - 1)
NoCall == [op |-> "none", arg |-> 0, val |-> 0]

\* ------------------------------------------------------------- render's steps

\* main: the scene is built, render is entered and the framebuffer allocated
Init ==
    /\ spheres \in RenderScenes
    /\ lights \in RenderLights
    /\ orig = Vec3f(0, 0, 0)
    /\ dir = Vec3f(0, 0, -One)
    /\ res = NoCall
    /\ pc = "loop"
    /\ i = 0
    /\ j = 0
    /\ framebuffer = [s \in Slots |-> Vec3f(Zero, Zero, Zero)]
    /\ written = <<>>
    /\ exists = FALSE
    /\ out = <<>>
    /\ frame = 0
    /\ ch = 0
    /\ ret = "none"


\* LoopDone one row early
LoopDoneEarly == j >= HEIGHT - 1

\* the frame loop is over
LoopDone == j >= HEIGHT

\* one iteration of the inner loop: pixel (i, j) is cast and stored
RenderPixel ==
    /\ pc = "loop"
    /\ ~LoopDone
    /\ framebuffer' = [framebuffer EXCEPT ![SlotOf(i, j)] =
                           CastRay(Vec3f(Zero, Zero, Zero), PixelDir(i, j), spheres, lights)]
    /\ written' = Append(written, SlotOf(i, j))
    /\ IF i + 1 < WIDTH
       THEN i' = i + 1 /\ j' = j
       ELSE i' = 0 /\ j' = j + 1
    /\ UNCHANGED <<spheres, lights, callVars, pc, exists, out, frame, ch, ret>>

\* the frame loop ends; File::create is next
LoopExit ==
    /\ pc = "loop"
    /\ LoopDone
    /\ pc' = "create"
    /\ UNCHANGED <<spheres, lights, callVars, i, j, framebuffer, written,
                   exists, out, frame, ch, ret>>

\* File::create("out.ppm")? succeeds: the file exists and is empty
CreateOk ==
    /\ pc = "create"
    /\ exists' = TRUE
    /\ out' = <<>>
    /\ pc' = "header"
    /\ UNCHANGED <<spheres, lights, callVars, i, j, framebuffer, written, frame, ch, ret>>

\* File::create("out.ppm")? fails: render returns the error
CreateErr ==
    /\ pc = "create"
    /\ pc' = "returned"
    /\ ret' = "Err"
    /\ UNCHANGED <<spheres, lights, callVars, i, j, framebuffer, written,
                   exists, out, frame, ch>>

\* write!(f, header)? succeeds
HeaderOk ==
    /\ pc = "header"
    /\ out' = out \o Header
    /\ pc' = "pixels"
    /\ frame' = 0
    /\ ch' = 0
    /\ UNCHANGED <<spheres, lights, callVars, i, j, framebuffer, written, exists, ret>>

\* write!(f, header)? fails after n of its pieces were written
HeaderErr ==
    /\ pc = "header"
    /\ \E n \in 0 .. (Len(Header) - 1) : out' = out \o SubSeq(Header, 1, n)
    /\ pc' = "returned"
    /\ ret' = "Err"
    /\ UNCHANGED <<spheres, lights, callVars, i, j, framebuffer, written,
                   exists, frame, ch>>

\* the encoder loop is over
EncodeDone == frame >= WIDTH * HEIGHT

\* the encoder's counters after one channel
NextFrame(f, c) == IF c + 1 < 3 THEN f ELSE f + 1
NextCh(c) == IF c + 1 < 3 THEN c + 1 ELSE 0

\* f.write_all(&[color])? succeeds for channel ch of frame
WriteOk ==
    /\ pc = "pixels"
    /\ ~EncodeDone
    /\ out' = Append(out, ChannelByte(framebuffer[frame][ch + 1]))
    /\ frame' = NextFrame(frame, ch)
    /\ ch' = NextCh(ch)
    /\ UNCHANGED <<spheres, lights, callVars, pc, i, j, framebuffer, written, exists, ret>>


\* WriteErr with the error dropped: the byte is skipped and the loop goes on
WriteErrIgnored ==
    /\ pc = "pixels"
    /\ ~EncodeDone
    /\ frame' = NextFrame(frame, ch)
    /\ ch' = NextCh(ch)
    /\ UNCHANGED <<spheres, lights, callVars, pc, i, j, framebuffer, written,
                   exists, out, ret>>

\* f.write_all(&[color])? fails: render returns the error
WriteErr ==
    /\ pc = "pixels"
    /\ ~EncodeDone
    /\ pc' = "returned"
    /\ ret' = "Err"
    /\ UNCHANGED <<spheres, lights, callVars, i, j, framebuffer, written,
                   exists, out, frame, ch>>

\* every byte is written: Ok(())
RenderOk ==
    /\ pc = "pixels"
    /\ EncodeDone
    /\ pc' = "returned"
    /\ ret' = "Ok"
    /\ UNCHANGED <<spheres, lights, callVars, i, j, framebuffer, written,
                   exists, out, frame, ch>>

Next ==
    \/ RenderPixel
    \/ LoopExit
    \/ CreateOk
    \/ CreateErr
    \/ HeaderOk
    \/ HeaderErr
    \/ WriteOk
    \/ WriteErr
    \/ RenderOk

Spec == Init /\ [][Next]_vars

\* ------------------------------------------------------------- the functions, applied

Idle ==
    /\ pc = "idle"
    /\ i = 0
    /\ j = 0
    /\ framebuffer = [s \in Slots |-> Vec3f(Zero, Zero, Zero)]
    /\ written = <<>>
    /\ exists = FALSE
    /\ out = <<>>
    /\ frame = 0
    /\ ch = 0
    /\ ret = "none"

GeomInit ==
    /\ spheres \in Scenes
    /\ lights = <<>>
    /\ orig \in Origs
    /\ dir \in Dirs
    /\ res = NoCall
    /\ Idle

CallRayIntersect ==
    /\ \E k \in 1 .. Len(spheres) :
          res' = [op |-> "ray_intersect", arg |-> k,
                  val |-> RayIntersect(spheres[k], orig, dir)]
    /\ UNCHANGED <<spheres, lights, orig, dir, renderVars>>

CallSceneIntersect ==
    /\ res' = [op |-> "scene_intersect", arg |-> 0,
               val |-> SceneIntersect(orig, dir, spheres)]
    /\ UNCHANGED <<spheres, lights, orig, dir, renderVars>>

CallReflect ==
    /\ \E n \in Normals :
          res' = [op |-> "reflect", arg |-> n, val |-> Reflect(dir, n)]
    /\ UNCHANGED <<spheres, lights, orig, dir, renderVars>>

GeomNext ==
    \/ CallRayIntersect
    \/ CallSceneIntersect
    \/ CallReflect

GeomSpec == GeomInit /\ [][GeomNext]_vars

ShadeInit ==
    /\ spheres \in ShadeScenes
    /\ lights \in LightSeqs
    /\ orig = Vec3f(0, 0, 0)
    /\ dir \in Dirs
    /\ res = NoCall
    /\ Idle

CallCastRay ==
    /\ res' = [op |-> "cast_ray", arg |-> 0,
               val |-> CastRay(orig, dir, spheres, lights)]
    /\ UNCHANGED <<spheres, lights, orig, dir, renderVars>>

ShadeNext == CallCastRay

ShadeSpec == ShadeInit /\ [][ShadeNext]_vars

\* ------------------------------------------------------------- properties

\* the intersection distance of sphere k of the scene with the ray, or None
Dist(k) == RayIntersect(spheres[k], orig, dir)
\* the spheres of the scene that the ray intersects
Hitting == {k \in 1 .. Len(spheres) : IsSome(Dist(k))}

\* C1: when at least one sphere intersects the ray, scene_intersect selects
\* a sphere whose distance is the minimum over the intersecting spheres: no
\* other sphere has a strictly smaller distance.
C1_SelectsMinimum ==
    (res.op = "scene_intersect" /\ Hitting # {}) =>
        /\ IsSome(res.val)
        /\ \A k \in Hitting :
              Unwrap(Dist(Unwrap(res.val).sphere)) <= Unwrap(Dist(k))

\* the comparison key: the distance truncated to an unsigned integer
TruncKey(k) == Unwrap(Dist(k)) \div Scale
\* the intersecting spheres whose key is the least key
LeastKey == {k \in Hitting : \A m \in Hitting : TruncKey(k) <= TruncKey(m)}

\* C2: scene_intersect returns a sphere fixed by the scene and the ray: among
\* the intersecting spheres whose truncated distances are the least, the one
\* earliest in scene order (and none when no sphere intersects).
C2_EarliestOfLeastKey ==
    res.op = "scene_intersect" =>
        IF Hitting = {} THEN res.val = None
        ELSE /\ IsSome(res.val)
             /\ Unwrap(res.val).sphere \in LeastKey
             /\ \A k \in LeastKey : Unwrap(res.val).sphere <= k

\* two spheres tie on the key with different distances, and the first wins
C2_Witness ==
    /\ res.op = "scene_intersect"
    /\ IsSome(res.val)
    /\ \E k \in LeastKey :
          /\ k > Unwrap(res.val).sphere
          /\ Unwrap(Dist(k)) # Unwrap(Dist(Unwrap(res.val).sphere))

\* C3: reflect(v, n) returns v - n * 2 * (v . n), v . n being the dot
\* product.
C3_MirrorReflection ==
    res.op = "reflect" =>
        res.val = VSub(dir, VScale(VScale(res.arg, Lit(2, 1)), VDot(dir, res.arg)))

\* the locals of Sphere::ray_intersect for sphere s and the ray
Tca(s) == VDot(VSub(s.center, orig), dir)
D2(s) == FSub(VDot(VSub(s.center, orig), VSub(s.center, orig)),
              FMul(Tca(s), Tca(s)))
Radius2(s) == FMul(s.radius, s.radius)
Thc(s) == FSqrt(FSub(Radius2(s), D2(s)))
T0(s) == FSub(Tca(s), Thc(s))
T1(s) == FAdd(Tca(s), Thc(s))

\* C4: ray_intersect returns none exactly when d2 > radius2 or both roots
\* are negative; otherwise it returns t1 when only t0 is negative and else
\* the smaller of t0 and t1; every distance returned is non-negative.
C4_SmallestNonNegativeRoot ==
    res.op = "ray_intersect" =>
        IF D2(spheres[res.arg]) > Radius2(spheres[res.arg])
        THEN res.val = None
        ELSE IF T0(spheres[res.arg]) < 0 /\ T1(spheres[res.arg]) < 0
        THEN res.val = None
        ELSE /\ IsSome(res.val)
             /\ Unwrap(res.val) >= 0
             /\ Unwrap(res.val) =
                    IF T0(spheres[res.arg]) < 0 THEN T1(spheres[res.arg])
                    ELSE IF T0(spheres[res.arg]) < T1(spheres[res.arg])
                    THEN T0(spheres[res.arg])
                    ELSE T1(spheres[res.arg])

\* the origin is inside the sphere and the exit distance is returned
C4_Witness ==
    /\ res.op = "ray_intersect"
    /\ D2(spheres[res.arg]) <= Radius2(spheres[res.arg])
    /\ T0(spheres[res.arg]) < 0
    /\ T1(spheres[res.arg]) > 0
    /\ res.val = Some(T1(spheres[res.arg]))

\* C5: for a ray that intersects no sphere of the scene (the empty scene
\* included), cast_ray returns exactly (0.2, 0.7, 0.8), whatever the lights.
C5_BackgroundColor ==
    (res.op = "cast_ray" /\ Hitting = {}) =>
        res.val = <<Lit(2, 10), Lit(7, 10), Lit(8, 10)>>

\* a ray misses every sphere of a lit, non-empty scene
C5_Witness ==
    /\ res.op = "cast_ray"
    /\ spheres # <<>>
    /\ lights # <<>>
    /\ Hitting = {}
    /\ res.val = <<Lit(2, 10), Lit(7, 10), Lit(8, 10)>>

\* the colour of the pixel stored in slot s
PixelOf(s) ==
    CastRay(Vec3f(Zero, Zero, Zero), PixelDir(s % WIDTH, s \div WIDTH),
            spheres, lights)
\* the slots assigned so far
Assigned == {written[n] : n \in 1 .. Len(written)}

\* the frame loop's record: every assignment is to a slot of the frame, no
\* slot is assigned twice, an assigned slot holds the colour of its pixel
\* (i, j) with slot = i + j * WIDTH, any other slot is untouched, and once
\* the loop is left every slot has been assigned
FrameLoopRecord ==
    /\ \A n \in 1 .. Len(written) : written[n] \in Slots
    /\ \A m, n \in 1 .. Len(written) : m # n => written[m] # written[n]
    /\ \A s \in Slots :
          framebuffer[s] = IF s \in Assigned THEN PixelOf(s)
                           ELSE Vec3f(Zero, Zero, Zero)
    /\ pc # "loop" => Assigned = Slots

\* the frame loop runs on no longer than the frame: while it runs, the
\* number of assignments made is the position i + j * WIDTH of its counters
\* and is at most WIDTH * HEIGHT; each iteration makes one more assignment,
\* and at WIDTH * HEIGHT the loop is over
FrameLoopEnds ==
    pc = "loop" =>
        /\ Len(written) = i + j * WIDTH
        /\ Len(written) <= WIDTH * HEIGHT
        /\ i < WIDTH
        /\ Len(written) = WIDTH * HEIGHT <=> LoopDone

\* C6: the frame loop terminates after assigning every framebuffer slot
\* exactly once: pixel (i, j)'s colour goes to slot i + j * WIDTH, no slot
\* is written twice, none outside the frame, and a write leaves the other
\* slots unchanged.
C6_EverySlotOnce == FrameLoopRecord /\ FrameLoopEnds

\* the loop is left with the frame complete and pixels of different colours
C6_Witness ==
    /\ pc = "create"
    /\ Len(written) = WIDTH * HEIGHT
    /\ \E s, t \in Slots : framebuffer[s] # framebuffer[t]

\* C7: nothing is output (no file created, no header, no pixel byte) before
\* all WIDTH * HEIGHT framebuffer entries have been computed.
C7_FrameBeforeOutput ==
    (exists \/ out # <<>>) => (Assigned = Slots /\ pc # "loop")

\* bytes have been written, after the whole frame
C7_Witness ==
    /\ Len(out) > Len(Header)
    /\ Len(written) = WIDTH * HEIGHT

\* the byte the claim gives for channel value z
ClaimedByte(z) ==
    IF z >= One THEN 255
    ELSE IF z <= Zero THEN 0
    ELSE FMul(Lit(255, 1), z) \div Scale
\* the complete image: the header, then three bytes per slot, row-major
Image ==
    <<6, WIDTH, HEIGHT, 255>>
    \o [n \in 1 .. (3 * WIDTH * HEIGHT) |->
            ClaimedByte(framebuffer[(n - 1) \div 3][((n - 1) % 3) + 1])]
IsPrefix(p, q) == Len(p) <= Len(q) /\ SubSeq(q, 1, Len(p)) = p

\* C8 as stated: after a failed render the output holds no header (and so
\* no header followed by a strict prefix of the pixel bytes).
C8_NothingExposedOnError ==
    ret = "Err" => ~IsPrefix(<<6, WIDTH, HEIGHT, 255>>, out)

\* C8, amended: a failure of File::create or of a write makes render
\* return an error at once; what was written before stays in the file, and
\* it is a strict prefix of the complete image of the fully computed frame.
\* render returns Ok only with the complete image written.
C8_ErrorLeavesPrefix ==
    /\ pc = "returned" => ret \in {"Ok", "Err"}
    /\ ret = "Err" =>
          /\ pc = "returned"
          /\ Assigned = Slots
          /\ IsPrefix(out, Image)
          /\ out # Image
    /\ ret = "Ok" => out = Image

\* a write fails after the header and some bytes went out
C8_Witness ==
    /\ ret = "Err"
    /\ Len(out) > Len(Header)

\* C9: after the header P6 / W H / 255 the encoder writes exactly
\* 3 * W * H bytes in row-major framebuffer order, each the truncation of
\* 255 * clamp(channel, 0, 1): 255 for a channel >= 1, 0 for a channel <= 0,
\* and 128 +- 1 for 0.5.
C9_ClampedBytes ==
    ret = "Ok" =>
        /\ out = Image
        /\ Len(out) = 4 + 3 * WIDTH * HEIGHT
        /\ \A s \in Slots, c \in 1 .. 3 :
              /\ framebuffer[s][c] >= One => out[4 + 3 * s + c] = 255
              /\ framebuffer[s][c] <= Zero => out[4 + 3 * s + c] = 0
              /\ 2 * framebuffer[s][c] = One => out[4 + 3 * s + c] \in 127 .. 129

\* a pixel (-1.0, 0.5, 2.0) is encoded
C9_Witness ==
    /\ ret = "Ok"
    /\ \E s \in Slots :
          /\ framebuffer[s] = <<-One, Lit(1, 2), Lit(2, 1)>>
          /\ SubSeq(out, 4 + 3 * s + 1, 4 + 3 * s + 3) = <<0, 127, 255>>

\* the orders of n things
Perms(n) == {p \in [1 .. n -> 1 .. n] : \A a, b \in 1 .. n : a # b => p[a] # p[b]}
Permuted(ls, p) == [n \in 1 .. Len(ls) |-> ls[p[n]]]
\* the hit of the ray, and the sums cast_ray accumulates there for lights ls
TheHit == Unwrap(SceneIntersect(orig, dir, spheres))
SumsFor(ls) == LightSums(TheHit, dir, spheres[TheHit.sphere].material, ls)

\* C10 as stated: for a hit, the sums over a list of lights are the sums of
\* the single-light evaluations in any order, so every permutation of the
\* lights gives the same colour.
C10_AnyOrderSameColor ==
    (res.op = "cast_ray" /\ Hitting # {}) =>
        \A p \in Perms(Len(lights)) :
            CastRay(orig, dir, spheres, Permuted(lights, p)) = res.val

\* C10, amended: for a hit and at most two lights, each sum is the f32 sum of
\* the single-light evaluations and both orders of the lights give the same
\* colour; with zero lights a hit shades to (0, 0, 0).  (With three or more
\* lights the sums are accumulated left to right in f32 and orders can
\* differ by rounding.)
C10_TwoLightsAdditive ==
    (res.op = "cast_ray" /\ Hitting # {}) =>
        /\ Len(lights) = 0 => res.val = <<Zero, Zero, Zero>>
        /\ Len(lights) = 1 =>
              res.val = Shade(spheres[TheHit.sphere].material, SumsFor(lights))
        /\ Len(lights) = 2 =>
              /\ SumsFor(lights) =
                    <<FAdd(SumsFor(<<lights[1]>>)[1], SumsFor(<<lights[2]>>)[1]),
                      FAdd(SumsFor(<<lights[1]>>)[2], SumsFor(<<lights[2]>>)[2])>>
              /\ SumsFor(<<lights[2], lights[1]>>) = SumsFor(lights)
              /\ CastRay(orig, dir, spheres, <<lights[2], lights[1]>>) = res.val
              /\ res.val = Shade(spheres[TheHit.sphere].material, SumsFor(lights))

\* a hit lit by two different lights that both contribute
C10_Witness ==
    /\ res.op = "cast_ray"
    /\ Hitting # {}
    /\ Len(lights) = 2
    /\ lights[1] # lights[2]
    /\ SumsFor(<<lights[1]>>)[1] > 0
    /\ SumsFor(<<lights[2]>>)[1] > 0
    /\ SumsFor(lights)[1] > SumsFor(<<lights[1]>>)[1]
====
